---- MODULE Spec2Model ----
(***************************************************************************)
(* Transfer engine of distribution-tooling-for-helm: chartutils.PullImages *)
(* and chartutils.PushImages (src/chartutils/options.go) as a state        *)
(* machine.  One behaviour is one call: the lock, the option list and the  *)
(* cache directory are the inputs; every loop iteration head (the select   *)
(* on ctx.Done) and every invocation of the retry callback is one step.    *)
(* The context may be cancelled between any two steps.                     *)
(***************************************************************************)
EXTENDS Integers, Sequences, FiniteSets, TLC

\* ---------------------------------------------------------------- bounds
MaxImages == 2
MaxDigests == 2
MaxRetriesOpt == 1

\* ------------------------------------------------------- program constants
DefaultMaxRetries == 3

\* digests, algorithm-prefixed: <alg>:<hex>
DigestIds == {[alg |-> "sha256", hex |-> "aa"], [alg |-> "sha256", hex |-> "bb"]}

Nil == [kind |-> "nil"]

\* ------------------------------------------------------------------ inputs
\* imagelock.ChartImage: name, image reference and the ordered Digest Entries
ChartImage(i, ds) == [name |-> <<"name", i>>, image |-> <<"repo", i>>, digests |-> ds]

IsInjective(s) == \A a, b \in DOMAIN s : s[a] = s[b] => a = b

\* the Digest Entries of one image: one digest per platform, all distinct
DigestLists ==
  {ds \in UNION {[1..k -> DigestIds] : k \in 0..MaxDigests} : IsInjective(ds)}

\* imagelock.ImagesLock.Images
Locks ==
  UNION {{[i \in 1..k |-> ChartImage(i, dl[i])] : dl \in [1..k -> DigestLists]} :
         k \in 0..MaxImages}

WithContext(ctx) == [opt |-> "WithContext", val |-> ctx]
WithMaxRetries(retries) == [opt |-> "WithMaxRetries", val |-> retries]
WithLog(l) == [opt |-> "WithLog", val |-> l]
WithProgressBar(pb) == [opt |-> "WithProgressBar", val |-> pb]
WithAnnotationsKey(str) == [opt |-> "WithAnnotationsKey", val |-> str]

OptKinds == {"WithContext", "WithMaxRetries", "WithLog"}

\* the option lists a caller passes: any subset of the options
OptionLists ==
  {SelectSeq(<<WithLog("logger"), WithContext("ctx"), WithMaxRetries(r)>>,
             LAMBDA o : o.opt \in ks) :
     ks \in SUBSET OptKinds, r \in 0..MaxRetriesOpt}

\* the options a caller can give, each with the values it can carry
AllOptions ==
  {WithMaxRetries(r) : r \in 0..MaxRetriesOpt}
    \cup {WithLog("logger"), WithLog("debuglog"), WithContext("ctx"),
          WithProgressBar("bar"), WithAnnotationsKey("custom")}

MaxOptions == 2

\* any options in any order, the same option more than once included
AnyOptionLists == UNION {[1..n -> AllOptions] : n \in 0..MaxOptions}

HasOption(os, kind) == \E k \in DOMAIN os : os[k].opt = kind

\* one option applied to the configuration
ApplyOption(cfg, o) ==
  CASE o.opt = "WithContext" -> [cfg EXCEPT !.Context = o.val]
    [] o.opt = "WithMaxRetries" -> [cfg EXCEPT !.MaxRetries = o.val]
    [] o.opt = "WithLog" -> [cfg EXCEPT !.Log = o.val]
    [] o.opt = "WithProgressBar" -> [cfg EXCEPT !.ProgressBar = o.val]
    [] o.opt = "WithAnnotationsKey" -> [cfg EXCEPT !.AnnotationsKey = o.val]

RECURSIVE ApplyOptions_FirstWins(_, _)
ApplyOptions_FirstWins(cfg, opts) ==
  IF opts = <<>> THEN cfg
  ELSE ApplyOption(ApplyOptions_FirstWins(cfg, Tail(opts)), Head(opts))

\* for _, opt := range opts { opt(cfg) }
RECURSIVE ApplyOptions(_, _)
ApplyOptions(cfg, opts) ==
  IF opts = <<>> THEN cfg
  ELSE ApplyOptions(ApplyOption(cfg, Head(opts)), Tail(opts))

NewConfiguration_Default4(opts) ==
  ApplyOptions([AnnotationsKey |-> "images",
                Log |-> "nil",
                Context |-> "background",
                ProgressBar |-> "silent",
                MaxRetries |-> DefaultMaxRetries + 1], opts)

\* NewConfiguration: the defaults, then the options in argument order.
\* Log is not among the defaults: it stays the nil interface without WithLog.
NewConfiguration(opts) ==
  ApplyOptions([AnnotationsKey |-> "images",
                Log |-> "nil",
                Context |-> "background",
                ProgressBar |-> "silent",
                MaxRetries |-> DefaultMaxRetries], opts)

getNumberOfArtifacts_Images(images) == Len(images)

RECURSIVE getNumberOfArtifacts(_)
getNumberOfArtifacts(images) ==
  IF images = <<>> THEN 0
  ELSE Len(Head(images).digests) + getNumberOfArtifacts(Tail(images))

PushTotal_Digests(images) == getNumberOfArtifacts(images)

\* PushImages: WithTotal(len(lock.Images))
PushTotal(images) == Len(images)

\* the transfer units of PullImages in loop order: image by image, digest by digest
RECURSIVE PullUnitsFrom(_, _)
PullUnitsFrom(images, i) ==
  IF i > Len(images) THEN <<>>
  ELSE [j \in 1..Len(images[i].digests) |-> [img |-> i, dg |-> j]]
       \o PullUnitsFrom(images, i + 1)

PullUnits(images) == PullUnitsFrom(images, 1)

\* the transfer units of PushImages in loop order: one per image
PushUnits(images) == [i \in 1..Len(images) |-> [img |-> i, dg |-> 0]]

\* -------------------------------------------------------- images directory
\* Digest.Encoded(): the digest without its algorithm prefix
Encoded(dgst) == dgst.hex

getImageTarFile_Fixed(dgst) == <<"aa", ".tar">>

\* getImageTarFile: <imagesDir>/<encoded digest>.tar
getImageTarFile(dgst) == <<Encoded(dgst), ".tar">>

CacheFiles == {getImageTarFile(d) : d \in DigestIds}

Absent == [state |-> "absent"]

\* a file crane.Save created and did not finish
Partial == [state |-> "partial"]

\* crane.Save(img, image, file): the image of the digest, tagged with the reference
Archive(image, digest) == [state |-> "ok", digest |-> digest, tag |-> image]

\* crane.Load(file) succeeds
Loadable(c) == c.state = "ok"

\* the images directory before the call: each file absent, truncated, or the
\* archive an earlier run saved for the digest of its name
InitialCaches ==
  {[f \in CacheFiles |->
      IF k[f] = "absent" THEN Absent
      ELSE IF k[f] = "partial" THEN Partial
      ELSE Archive(<<"repo", 0>>, CHOOSE d \in DigestIds : getImageTarFile(d) = f)] :
     k \in [CacheFiles -> {"absent", "partial", "ok"}]}

\* ------------------------------------------------------------------- state
VARIABLES
  lock,        \* lock.Images, read by the call
  opts,        \* the options the caller passes to the call
  cfg,         \* the Configuration built by NewConfiguration(opts...)
  cache,       \* imagesDir: file name -> absent | partial | the archive saved in it
  cache0,      \* imagesDir as the call in progress found it
  fetches,     \* the references the call asked the registry for, with the file of each
  registry,    \* manifest lists written by remote.WriteIndex: set of [image, manifests]
  ctxDone,     \* the context given by WithContext has been cancelled
  op,          \* "none" | "pull" | "push": the call in progress
  pc,          \* "init" | "select" | "attempt" | "done" | "panic"
  u,           \* index of the current transfer unit in loop order
  try,         \* ExecuteWithRetry: the retry counter handed to the callback
  err,         \* ExecuteWithRetry: the previous error handed to the callback
  calls,       \* pullImage / pushImage calls made for the current unit
  warns,       \* p.Warnf "retrying" events reported for the current unit
  status,      \* per unit: "Pending" | "InFlight" | "Succeeded" | "Failed"
  attempted,   \* units for which pullImage / pushImage was called at least once
  progress,    \* the progress bar: [total, count]
  result,      \* the value the call returned, or Nil while it runs
  cancelSeen,  \* where the call saw the cancellation: "none" | "select" | "retry"
  round,       \* 1 for the first call on the images directory, 2 for the second
  snapshot,    \* the previous call: its operation, its result and the directory it left
  cmd,         \* "none" | "wrap" | "pull": the dt command in progress
  wpc,         \* the command's position: "idle" | "resolve" | "load" | "lockstep" |
               \*   "pull" | "pulling" | "compress" | "done"
  inputPath,   \* args[0] of the command
  outputFile,  \* the --output-file flag, NoOutput when not given
  chartPath,   \* the chart directory the command works on
  chart,       \* the chart LoadChart returned: [name, version]
  declared,    \* the images the chart's annotations resolve to
  lockFile,    \* the Images.lock file of the chart directory
  outFile,     \* wrapChart's outputFile after the default was applied
  bundle,      \* the archive utils.TarContext wrote: [file, prefix]
  steps,       \* the steps the command ran, in order: [step, ok]
  wresult,     \* what the command returned, or Nil while it runs
  parent,      \* the context given to contextWithSigterm: "background" |
               \*   "live" (can be cancelled) | "done" (was cancelled)
  signalled,   \* an interrupt or SIGTERM reached the channel of signal.NotifyContext
  registered,  \* the signals are redirected to that channel (until stop)
  gpc          \* the goroutine of contextWithSigterm: "none" | "waiting" |
               \*   "stopping" | "exited"

vars == <<lock, opts, cfg, cache, cache0, fetches, registry, ctxDone, op, pc, u, try,
          err, calls, warns, status, attempted, progress, result, cancelSeen, round,
          snapshot, cmd, wpc, inputPath, outputFile, chartPath, chart, declared,
          lockFile, outFile, bundle, steps, wresult, parent, signalled, registered,
          gpc>>

callVars == <<round, snapshot>>

sigVars == <<parent, signalled, registered, gpc>>

wrapVars == <<cmd, wpc, inputPath, outputFile, chartPath, chart, declared, lockFile,
              outFile, bundle, steps, wresult, sigVars>>

\* what a chartutils call works on, the lock apart
engineVars == <<opts, cfg, cache, cache0, fetches, registry, ctxDone, op, pc, u, try,
                err, calls, warns, status, attempted, progress, result, cancelSeen>>

\* ctx.Err() != nil, and equally the ctx.Done() case of the select being ready,
\* for ctx := cfg.Context
CtxErr == ctxDone /\ pc # "init" /\ cfg.Context = "ctx"

Units == IF op = "push" THEN PushUnits(lock) ELSE PullUnits(lock)

UnitImage(v) == lock[Units[v].img]

\* before a call of PullImages or PushImages with one of the given locks,
\* option lists and images directories
InitCall(locks, optionLists, caches) ==
  /\ lock \in locks
  /\ opts \in optionLists
  /\ cfg = Nil
  /\ cache \in caches
  /\ cache0 = cache
  /\ fetches = {}
  /\ registry = {}
  /\ ctxDone = FALSE
  /\ op = "none"
  /\ pc = "init"
  /\ u = 1
  /\ try = 0
  /\ err = Nil
  /\ calls = 0
  /\ warns = 0
  /\ status = <<>>
  /\ attempted = {}
  /\ progress = [total |-> 0, count |-> 0]
  /\ result = Nil
  /\ cancelSeen = "none"
  /\ round = 1
  /\ snapshot = [op |-> "none"]
  /\ cmd = "none"
  /\ wpc = "idle"
  /\ inputPath = Nil
  /\ outputFile = Nil
  /\ chartPath = Nil
  /\ chart = Nil
  /\ declared = lock
  /\ lockFile = Nil
  /\ outFile = Nil
  /\ bundle = Nil
  /\ steps = <<>>
  /\ wresult = Nil
  /\ parent = "background"
  /\ signalled = FALSE
  /\ registered = FALSE
  /\ gpc = "none"

Init == InitCall(Locks, OptionLists, InitialCaches)

\* ------------------------------------------------------- transfer operations
PullOutcomes == {"ok", "get", "save"}

PullRef_Tag(image, digest) == [image |-> image, digest |-> [alg |-> "sha256", hex |-> "ff"]]

\* src := fmt.Sprintf("%s@%s", image, digest.Digest)
PullRef(image, digest) == [image |-> image, digest |-> digest]

pullImage_NoSave(image, digest, files, attempt, outcome) ==
  LET imgFileName == getImageTarFile(digest)
      src == PullRef(image, digest)
  IN
  IF outcome = "ok" THEN [err |-> Nil, cache |-> files, ref |-> src, file |-> imgFileName]
  ELSE [err |-> [kind |-> outcome, attempt |-> attempt], cache |-> files,
        ref |-> src, file |-> imgFileName]

pullImage_AppendExisting(image, digest, files, attempt, outcome) ==
  LET imgFileName == getImageTarFile(digest)
      src == PullRef(image, digest)
  IN
  IF outcome = "ok"
  THEN [err |-> Nil,
        cache |-> [files EXCEPT ![imgFileName] =
                     IF files[imgFileName] = Absent THEN Archive(image, src.digest)
                     ELSE Partial],
        ref |-> src, file |-> imgFileName]
  ELSE [err |-> [kind |-> outcome, attempt |-> attempt], cache |-> files,
        ref |-> src, file |-> imgFileName]

pullImage_SkipCached(image, digest, files, attempt, outcome) ==
  LET imgFileName == getImageTarFile(digest)
      src == PullRef(image, digest)
  IN
  IF Loadable(files[imgFileName])
  THEN [err |-> Nil, cache |-> files, ref |-> Nil, file |-> imgFileName]
  ELSE IF outcome = "ok"
  THEN [err |-> Nil,
        cache |-> [files EXCEPT ![imgFileName] = Archive(image, src.digest)],
        ref |-> src, file |-> imgFileName]
  ELSE [err |-> [kind |-> outcome, attempt |-> attempt], cache |-> files,
        ref |-> src, file |-> imgFileName]

\* pullImage: fetch image@digest and save it as the archive of the digest.
\* "get": ParseReference, remote.Get or rmt.Image failed, nothing is written.
\* "save": crane.Save failed after creating the file.
pullImage(image, digest, files, attempt, outcome) ==
  LET imgFileName == getImageTarFile(digest)
      src == PullRef(image, digest)
  IN
  CASE outcome = "ok" ->
         [err |-> Nil,
          cache |-> [files EXCEPT ![imgFileName] = Archive(image, src.digest)],
          ref |-> src, file |-> imgFileName]
    [] outcome = "get" ->
         [err |-> [kind |-> "get", attempt |-> attempt], cache |-> files,
          ref |-> src, file |-> imgFileName]
    [] outcome = "save" ->
         [err |-> [kind |-> "save", attempt |-> attempt, file |-> imgFileName],
          cache |-> [files EXCEPT ![imgFileName] = Partial],
          ref |-> src, file |-> imgFileName]

PushOutcomes == {"ok", "config", "write"}

\* buildImageIndex: crane.Load of every archive of the image, in order, and
\* one addendum per loaded archive (descriptor and platform of the loaded image)
buildImageIndex(image, files, attempt, outcome) ==
  LET unloadable == {j \in 1..Len(image.digests) :
                       ~Loadable(files[getImageTarFile(image.digests[j])])}
      first == CHOOSE j \in unloadable : \A k \in unloadable : j <= k
  IN
  IF unloadable # {}
  THEN [err |-> [kind |-> "load", attempt |-> attempt,
                 file |-> getImageTarFile(image.digests[first])],
        index |-> <<>>]
  ELSE IF outcome = "config"
  THEN [err |-> [kind |-> "config", attempt |-> attempt], index |-> <<>>]
  ELSE [err |-> Nil,
        index |-> [j \in 1..Len(image.digests) |->
                     files[getImageTarFile(image.digests[j])].digest]]

pushImage_ConsumesDigests(imgData, files, written, attempt, outcome) ==
  LET idx == buildImageIndex(imgData, files, attempt, outcome) IN
  IF idx.err # Nil THEN [err |-> idx.err, registry |-> written, imgData |-> imgData]
  ELSE IF outcome = "write"
  THEN [err |-> [kind |-> "write", attempt |-> attempt], registry |-> written,
        imgData |-> imgData]
  ELSE [err |-> Nil,
        registry |-> written \cup {[image |-> imgData.image, manifests |-> idx.index]},
        imgData |-> [imgData EXCEPT !.digests = <<>>]]

\* pushImage: build the manifest list and write it to the image reference;
\* imgData is a pointer into the lock, returned as the call leaves it
pushImage(imgData, files, written, attempt, outcome) ==
  LET idx == buildImageIndex(imgData, files, attempt, outcome) IN
  IF idx.err # Nil THEN [err |-> idx.err, registry |-> written, imgData |-> imgData]
  ELSE IF outcome = "write"
  THEN [err |-> [kind |-> "write", attempt |-> attempt], registry |-> written,
        imgData |-> imgData]
  ELSE [err |-> Nil,
        registry |-> written \cup {[image |-> imgData.image, manifests |-> idx.index]},
        imgData |-> imgData]

\* --------------------------------------------------------- the retry policy
\* utils.ExecuteWithRetry(retries, cb): what the loop does with the value the
\* callback returned at retry number t
ExecuteWithRetry(retries, t, cbErr) ==
  IF cbErr = Nil THEN "return"
  ELSE IF t < retries THEN "retry"
  ELSE "return"

SelectCase_NoAbort(done) == "default"

\* select { case <-ctx.Done(): return ...; default: ... }
SelectCase(done) == IF done THEN "abort" ELSE "default"

CancelledError_AsFailure == [kind |-> "failed", name |-> <<"name", 0>>, cause |-> Nil]

\* fmt.Errorf("cancelled execution")
CancelledError == [kind |-> "cancelled"]

CallbackSkips_Never(t, done) == FALSE

\* if try > 0 { if ctx.Err() != nil { return prevErr } ... }
CallbackSkips(t, done) == t > 0 /\ done

\* p.Add(1)
ProgressAdd(count) == count + 1

AfterUnit_Continue(e) == "next"

\* if err != nil { return fmt.Errorf("failed to ... image %q: %w", name, err) }
AfterUnit(e) == IF e # Nil THEN "return" ELSE "next"

\* fmt.Errorf("failed to pull image %q: %w", imgDesc.Name, err)
PullFailed(name, e) == [kind |-> "failed", name |-> name, cause |-> e]

\* fmt.Errorf("failed to push image %q: %w", imgData.Name, err)
PushFailed(name, e) == [kind |-> "failed", name |-> name, cause |-> e]

\* the range loops: the next iteration, or the return nil after the last one
LoopNext(v) ==
  IF v + 1 > Len(Units)
  THEN /\ pc' = "done"
       /\ result' = [kind |-> "ok"]
       /\ u' = v
  ELSE /\ pc' = "select"
       /\ result' = result
       /\ u' = v + 1

\* ExecuteWithRetry took cbErr from the callback at retry number try, and the
\* caller took what ExecuteWithRetry returned
AfterCallback(cbErr, failed) ==
  IF ExecuteWithRetry(cfg.MaxRetries, try, cbErr) = "retry"
  THEN /\ try' = try + 1
       /\ err' = cbErr
       /\ UNCHANGED <<pc, u, status, result>>
  ELSE /\ UNCHANGED <<try, err>>
       /\ status' = [status EXCEPT ![u] = IF cbErr = Nil THEN "Succeeded" ELSE "Failed"]
       /\ IF AfterUnit(cbErr) = "return"
          THEN /\ pc' = "done"
               /\ result' = failed
               /\ u' = u
          ELSE LoopNext(u)

\* l.Debugf on the nil Log interface: the call panics
Panic ==
  /\ pc' = "panic"
  /\ result' = [kind |-> "panic"]
  /\ UNCHANGED <<u, try, err, status>>

\* ------------------------------------------------------------- PullImages
PullImagesStart ==
  /\ UNCHANGED callVars
  /\ UNCHANGED wrapVars
  /\ wpc \in {"idle", "pulling"}
  /\ pc = "init"
  /\ op' = "pull"
  /\ cfg' = NewConfiguration(opts)
  /\ \E mkdirOk \in BOOLEAN :
       IF ~mkdirOk
       THEN /\ pc' = "done"
            /\ result' = [kind |-> "mkdir"]
            /\ UNCHANGED <<u, status, progress>>
       ELSE /\ progress' = [total |-> getNumberOfArtifacts(lock), count |-> 0]
            /\ status' = [v \in 1..Len(PullUnits(lock)) |-> "Pending"]
            /\ IF PullUnits(lock) = <<>>
               THEN /\ pc' = "done"
                    /\ result' = [kind |-> "ok"]
                    /\ u' = u
               ELSE /\ pc' = "select"
                    /\ result' = result
                    /\ u' = 1
  /\ cache0' = cache
  /\ UNCHANGED <<lock, opts, cache, fetches, registry, ctxDone, try, err, calls, warns,
                 attempted, cancelSeen>>

PullSelect ==
  /\ UNCHANGED callVars
  /\ UNCHANGED wrapVars
  /\ pc = "select"
  /\ op = "pull"
  /\ IF SelectCase(CtxErr) = "abort"
     THEN /\ pc' = "done"
          /\ result' = CancelledError
          /\ cancelSeen' = "select"
          /\ UNCHANGED <<try, err, calls, warns, status, progress>>
     ELSE /\ progress' = [progress EXCEPT !.count = ProgressAdd(progress.count)]
          /\ status' = [status EXCEPT ![u] = "InFlight"]
          /\ try' = 0
          /\ err' = Nil
          /\ calls' = 0
          /\ warns' = 0
          /\ pc' = "attempt"
          /\ UNCHANGED <<result, cancelSeen>>
  /\ UNCHANGED <<lock, opts, cfg, cache, cache0, fetches, registry, ctxDone, op, u, attempted>>

PullCallback ==
  /\ UNCHANGED callVars
  /\ UNCHANGED wrapVars
  /\ pc = "attempt"
  /\ op = "pull"
  /\ LET img == UnitImage(u)
         dgst == img.digests[Units[u].dg]
         failed(e) == PullFailed(img.name, e)
     IN
     IF CallbackSkips(try, CtxErr)
     THEN /\ cancelSeen' = "retry"
          /\ AfterCallback(err, failed(err))
          /\ UNCHANGED <<cache, fetches, calls, warns, attempted>>
     ELSE IF try > 0 /\ cfg.Log = "nil"
     THEN /\ Panic
          /\ UNCHANGED <<cache, fetches, calls, warns, attempted, cancelSeen>>
     ELSE \E outcome \in PullOutcomes :
            LET r == pullImage(img.image, dgst, cache, calls + 1, outcome) IN
            /\ warns' = IF try > 0 THEN warns + 1 ELSE warns
            /\ calls' = calls + 1
            /\ attempted' = attempted \cup {u}
            /\ cache' = r.cache
            /\ fetches' = fetches \cup {[unit |-> u, ref |-> r.ref, file |-> r.file]}
            /\ AfterCallback(r.err, failed(r.err))
            /\ UNCHANGED cancelSeen
  /\ UNCHANGED <<lock, opts, cfg, cache0, registry, ctxDone, op, progress>>

\* ------------------------------------------------------------- PushImages
PushImagesStart ==
  /\ UNCHANGED callVars
  /\ UNCHANGED wrapVars
  /\ pc = "init"
  /\ op' = "push"
  /\ cfg' = NewConfiguration(opts)
  /\ progress' = [total |-> PushTotal(lock), count |-> 0]
  /\ status' = [v \in 1..Len(PushUnits(lock)) |-> "Pending"]
  /\ IF PushUnits(lock) = <<>>
     THEN /\ pc' = "done"
          /\ result' = [kind |-> "ok"]
          /\ u' = u
     ELSE /\ pc' = "select"
          /\ result' = result
          /\ u' = 1
  /\ cache0' = cache
  /\ UNCHANGED <<lock, opts, cache, fetches, registry, ctxDone, try, err, calls, warns,
                 attempted, cancelSeen>>

PushSelect ==
  /\ UNCHANGED callVars
  /\ UNCHANGED wrapVars
  /\ pc = "select"
  /\ op = "push"
  /\ IF SelectCase(CtxErr) = "abort"
     THEN /\ pc' = "done"
          /\ result' = CancelledError
          /\ cancelSeen' = "select"
          /\ UNCHANGED <<try, err, calls, warns, status, progress>>
     ELSE /\ progress' = [progress EXCEPT !.count = ProgressAdd(progress.count)]
          /\ status' = [status EXCEPT ![u] = "InFlight"]
          /\ try' = 0
          /\ err' = Nil
          /\ calls' = 0
          /\ warns' = 0
          /\ pc' = "attempt"
          /\ UNCHANGED <<result, cancelSeen>>
  /\ UNCHANGED <<lock, opts, cfg, cache, cache0, fetches, registry, ctxDone, op, u, attempted>>

PushCallback ==
  /\ UNCHANGED callVars
  /\ UNCHANGED wrapVars
  /\ pc = "attempt"
  /\ op = "push"
  /\ LET img == UnitImage(u)
         failed(e) == PushFailed(img.name, e)
     IN
     IF CallbackSkips(try, CtxErr)
     THEN /\ cancelSeen' = "retry"
          /\ AfterCallback(err, failed(err))
          /\ UNCHANGED <<lock, registry, calls, warns, attempted>>
     ELSE IF try > 0 /\ cfg.Log = "nil"
     THEN /\ Panic
          /\ UNCHANGED <<lock, registry, calls, warns, attempted, cancelSeen>>
     ELSE \E outcome \in PushOutcomes :
            LET r == pushImage(img, cache, registry, calls + 1, outcome) IN
            /\ warns' = IF try > 0 THEN warns + 1 ELSE warns
            /\ calls' = calls + 1
            /\ attempted' = attempted \cup {u}
            /\ registry' = r.registry
            /\ lock' = [lock EXCEPT ![Units[u].img] = r.imgData]
            /\ AfterCallback(r.err, failed(r.err))
            /\ UNCHANGED cancelSeen
  /\ UNCHANGED <<opts, cfg, cache, cache0, fetches, ctxDone, op, progress>>

\* ----------------------------------------------------------- environment
\* the caller (or a signal) cancels the context while the call runs
Cancel ==
  /\ UNCHANGED callVars
  /\ UNCHANGED wrapVars
  /\ HasOption(opts, "WithContext")
  /\ ~ctxDone
  /\ pc \in {"init", "select", "attempt"}
  /\ ctxDone' = TRUE
  /\ UNCHANGED <<lock, opts, cfg, cache, cache0, fetches, registry, op, pc, u, try, err, calls, warns,
                 status, attempted, progress, result, cancelSeen>>

\* the caller runs PullImages again on the same lock and images directory,
\* with a fresh context
CallAgain ==
  /\ UNCHANGED wrapVars
  /\ pc = "done"
  /\ round = 1
  /\ round' = 2
  /\ snapshot' = [op |-> op, kind |-> result.kind, cache |-> cache]
  /\ op' = "none"
  /\ pc' = "init"
  /\ cfg' = Nil
  /\ cache0' = cache
  /\ fetches' = {}
  /\ ctxDone' = FALSE
  /\ u' = 1
  /\ try' = 0
  /\ err' = Nil
  /\ calls' = 0
  /\ warns' = 0
  /\ status' = <<>>
  /\ attempted' = {}
  /\ progress' = [total |-> 0, count |-> 0]
  /\ result' = Nil
  /\ cancelSeen' = "none"
  /\ UNCHANGED <<lock, opts, cache, registry>>

Next ==
  \/ PullImagesStart
  \/ PullSelect
  \/ PullCallback
  \/ PushImagesStart
  \/ PushSelect
  \/ PushCallback
  \/ Cancel

Spec == Init /\ [][Next]_vars

\* two pulls in a row into a directory that starts empty, by a caller that
\* gives a logger
InitRepeat ==
  /\ Init
  /\ HasOption(opts, "WithLog")
  /\ cache = [f \in CacheFiles |-> Absent]

NextRepeat ==
  \/ PullImagesStart
  \/ PullSelect
  \/ PullCallback
  \/ Cancel
  \/ CallAgain

SpecRepeat == InitRepeat /\ [][NextRepeat]_vars

\* one call with any options in any order, on a lock of at most one image
\* and an empty images directory
InitConfig ==
  InitCall({l \in Locks : Len(l) <= 1}, AnyOptionLists, {[f \in CacheFiles |-> Absent]})

SpecConfig == InitConfig /\ [][Next]_vars

\* ------------------------------------------------------------ dt commands
\* strings are sequences of pieces; fmt.Sprintf("%s-%s", a, b)
Sprintf(a, b) == a \o <<"-">> \o b

\* outputFile == ""
NoOutput == [kind |-> "unset"]

OutputFiles == {NoOutput, [kind |-> "path", path |-> <<"out", ".tgz">>]}

\* args[0]: a chart directory, a chart tarball or an OCI reference; oci is
\* strings.HasPrefix(path, "oci://"), tar is what reading the content at the
\* path finds: a tar archive ("yes"), something else ("no"), or nothing
\* readable ("error")
InputPaths ==
  {[kind |-> "path", path |-> <<"charts", "m">>, oci |-> FALSE, tar |-> "no"],
   [kind |-> "path", path |-> <<"charts", "gone">>, oci |-> FALSE, tar |-> "error"],
   [kind |-> "path", path |-> <<"m", ".tgz">>, oci |-> FALSE, tar |-> "yes"],
   [kind |-> "path", path |-> <<"oci://", "r", "m">>, oci |-> TRUE, tar |-> "error"],
   [kind |-> "path", path |-> <<"oci://", "m", ".tgz">>, oci |-> TRUE, tar |-> "yes"]}

\* the inputs of everyday use: a chart directory that is there, a chart
\* tarball, an OCI reference that names no local file
UsualInputs ==
  {i \in InputPaths : \/ ~i.oci /\ i.tar \in {"no", "yes"}
                      \/ i.oci /\ i.tar = "error"}

\* utils.IsTarFile: detection by content; no archive is reported when the
\* content cannot be read
IsTarFile(path) == [isTar |-> path.tar = "yes", err |-> path.tar = "error"]

\* name and version of the Chart.yaml a chart directory can hold
Charts ==
  {[name |-> <<"m">>, version |-> <<"1">>],
   [name |-> <<"m", "-", "x">>, version |-> <<"2">>]}

NoFile == [state |-> "absent"]

File(images, origin) == [state |-> "present", images |-> images, origin |-> origin]

\* utils.FileExists
FileExists(f) == f.state = "present"

\* a lock that no longer matches the declarations
Stale(images) == IF images = <<>> THEN <<ChartImage(1, <<>>)>> ELSE Tail(images)

\* resolveInputChartPath: fetch an OCI reference, else uncompress a tarball,
\* else take the path as it is
resolveInputChartPath_TarFirst(path, outcome) ==
  IF outcome = "tmpdir" THEN [err |-> [kind |-> "tmpdir"], chartPath |-> Nil]
  ELSE IF IsTarFile(path).isTar
  THEN IF outcome = "step"
       THEN [err |-> [kind |-> "uncompress"], chartPath |-> Nil]
       ELSE [err |-> Nil, chartPath |-> [kind |-> "path", path |-> <<"tmp", "untarred">>]]
  ELSE IF path.oci
  THEN IF outcome = "step"
       THEN [err |-> [kind |-> "download"], chartPath |-> Nil]
       ELSE [err |-> Nil, chartPath |-> [kind |-> "path", path |-> <<"tmp", "fetched">>]]
  ELSE [err |-> Nil, chartPath |-> [kind |-> "path", path |-> path.path]]

resolveInputChartPath(path, outcome) ==
  IF outcome = "tmpdir" THEN [err |-> [kind |-> "tmpdir"], chartPath |-> Nil]
  ELSE IF path.oci
  THEN IF outcome = "step"
       THEN [err |-> [kind |-> "download"], chartPath |-> Nil]
       ELSE [err |-> Nil, chartPath |-> [kind |-> "path", path |-> <<"tmp", "fetched">>]]
  ELSE IF IsTarFile(path).isTar
  THEN IF outcome = "step"
       THEN [err |-> [kind |-> "uncompress"], chartPath |-> Nil]
       ELSE [err |-> Nil, chartPath |-> [kind |-> "path", path |-> <<"tmp", "untarred">>]]
  ELSE [err |-> Nil, chartPath |-> [kind |-> "path", path |-> path.path]]

LockStep_AlwaysGenerate(exists) == "generate"

\* if utils.FileExists(lockFile) { verifyLock } else { createImagesLock }
LockStep(exists) == IF exists THEN "verify" ELSE "generate"

\* verifyLock: the lock file matches what the chart declares
verifyLock(images, f, ok) ==
  IF ok /\ f.images = images
  THEN [err |-> Nil, file |-> f]
  ELSE [err |-> [kind |-> "verify"], file |-> f]

\* createImagesLock: resolve the declarations and write the lock file
createImagesLock(images, f, ok) ==
  IF ok
  THEN [err |-> Nil, file |-> File(images, "generated")]
  ELSE [err |-> [kind |-> "generate"], file |-> f]

\* if outputFile == "" { outputFile = <abs or chart parent>/<name>-<version>.wrap.tgz }
DefaultOutputFile(c, out, absOk) ==
  IF out = NoOutput
  THEN [kind |-> "path",
        path |-> <<IF absOk THEN "cwd" ELSE "chartParent">>
                   \o Sprintf(c.name, c.version) \o <<".wrap.tgz">>]
  ELSE out

\* imagelock.FromYAMLFile
FromYAMLFile(f, ok) ==
  IF FileExists(f) /\ ok
  THEN [err |-> Nil, images |-> f.images]
  ELSE [err |-> [kind |-> "read"], images |-> <<>>]

\* utils.TarContext: the archive of the chart root under tarCfg.Prefix
TarContext(out, tarCfg, ok) ==
  IF ok
  THEN [err |-> Nil, bundle |-> [kind |-> "tar", file |-> out, prefix |-> tarCfg.Prefix]]
  ELSE [err |-> [kind |-> "tar"], bundle |-> Nil]

compressChart_OutputPrefix(c, out, ok) == TarContext(out, [Prefix |-> out.path], ok)

\* compressChart: Prefix is fmt.Sprintf("%s-%s", chart.Name(), chart.Metadata.Version)
compressChart(c, out, ok) == TarContext(out, [Prefix |-> Sprintf(c.name, c.version)], ok)

WrapAfterStep_Continue(e, next) == next

\* if err := l.ExecuteStep(...); err != nil { return l.Failf(...) }
WrapAfterStep(e, next) == IF e # Nil THEN "done" ELSE next

\* the options both commands pass to pullChartImages
CommandOptions == <<WithLog("logger"), WithContext("ctx"), WithProgressBar("bar")>>

\* where the command goes after a step that returned e, and what it returns
Finish(e, step, next) ==
  LET to == WrapAfterStep(e, next) IN
  IF to = "done"
  THEN /\ wpc' = "done"
       /\ wresult' = [kind |-> "error", step |-> step, cause |-> e]
  ELSE IF to = "return"
  THEN /\ wpc' = "done"
       /\ wresult' = [kind |-> "ok"]
  ELSE /\ wpc' = to
       /\ wresult' = wresult

\* wrapChart: chartPath, err := resolveInputChartPath(inputPath, l, flags)
WrapResolve ==
  /\ cmd = "wrap"
  /\ wpc = "resolve"
  /\ gpc # "none"
  /\ \E outcome \in {"ok", "tmpdir", "step"} :
       LET r == resolveInputChartPath(inputPath, outcome) IN
       /\ chartPath' = r.chartPath
       /\ IF r.err # Nil
          THEN /\ wpc' = "done"
               /\ wresult' = [kind |-> "error", step |-> "resolve", cause |-> r.err]
          ELSE /\ wpc' = "load"
               /\ wresult' = wresult
  /\ UNCHANGED <<lock, engineVars, callVars, sigVars>>
  /\ UNCHANGED <<cmd, inputPath, outputFile, chart, declared, lockFile, outFile, bundle, steps>>

\* chart, err := chartutils.LoadChart(chartPath), in wrapChart and in dt pull
LoadChart ==
  /\ wpc = "load"
  /\ gpc # "none"
  /\ \E c \in Charts \cup {Nil} :
       /\ chart' = c
       /\ IF c = Nil
          THEN /\ wpc' = "done"
               /\ wresult' = [kind |-> "error", step |-> "load", cause |-> [kind |-> "load"]]
          ELSE /\ wpc' = IF cmd = "wrap" THEN "lockstep" ELSE "pull"
               /\ wresult' = wresult
  /\ UNCHANGED <<lock, engineVars, callVars, sigVars>>
  /\ UNCHANGED <<cmd, inputPath, outputFile, chartPath, declared, lockFile, outFile, bundle, steps>>

\* wrapChart: the lock file location, then verify or generate, then the
\* default output file
WrapLockStep ==
  /\ cmd = "wrap"
  /\ wpc = "lockstep"
  /\ \E pathOk \in BOOLEAN, ok \in BOOLEAN, absOk \in BOOLEAN :
       IF ~pathOk
       THEN /\ wpc' = "done"
            /\ wresult' = [kind |-> "error", step |-> "lockpath", cause |-> [kind |-> "lockpath"]]
            /\ UNCHANGED <<lockFile, steps, outFile>>
       ELSE LET kind == LockStep(FileExists(lockFile))
                r == IF kind = "verify"
                     THEN verifyLock(declared, lockFile, ok)
                     ELSE createImagesLock(declared, lockFile, ok)
            IN
            /\ lockFile' = r.file
            /\ steps' = Append(steps, [step |-> kind, ok |-> r.err = Nil])
            /\ outFile' = IF WrapAfterStep(r.err, "pull") = "pull"
                          THEN DefaultOutputFile(chart, outputFile, absOk)
                          ELSE outFile
            /\ Finish(r.err, kind, "pull")
  /\ UNCHANGED <<lock, engineVars, callVars, sigVars>>
  /\ UNCHANGED <<cmd, inputPath, outputFile, chartPath, chart, declared, bundle>>

\* where the command goes after the images were pulled: wrapChart always
\* compresses, dt pull only with --output-file
AfterPull == IF cmd = "wrap" \/ outputFile # NoOutput THEN "compress" ELSE "return"

\* pullChartImages up to its call of chartutils.PullImages
PullChartImages ==
  /\ wpc = "pull"
  /\ \E ok \in BOOLEAN :
       LET r == FromYAMLFile(lockFile, ok) IN
       IF r.err # Nil
       THEN /\ steps' = Append(steps, [step |-> "pull", ok |-> FALSE])
            /\ Finish(r.err, "pull", AfterPull)
            /\ UNCHANGED lock
       ELSE /\ lock' = r.images
            /\ wpc' = "pulling"
            /\ UNCHANGED <<steps, wresult>>
  /\ UNCHANGED <<engineVars, callVars, sigVars>>
  /\ UNCHANGED <<cmd, inputPath, outputFile, chartPath, chart, declared, lockFile, outFile, bundle>>

\* chartutils.PullImages returned to pullChartImages, and the section to the command
PullChartImagesReturn ==
  /\ wpc = "pulling"
  /\ pc = "done"
  /\ LET e == IF result.kind = "ok" THEN Nil ELSE [kind |-> "pull", cause |-> result] IN
     /\ steps' = Append(steps, [step |-> "pull", ok |-> e = Nil])
     /\ Finish(e, "pull", AfterPull)
  /\ UNCHANGED <<lock, engineVars, callVars, sigVars>>
  /\ UNCHANGED <<cmd, inputPath, outputFile, chartPath, chart, declared, lockFile, outFile, bundle>>

\* the "Compressing" step of wrapChart and of dt pull --output-file
Compress ==
  /\ wpc = "compress"
  /\ \E ok \in BOOLEAN :
       LET r == compressChart(chart, IF cmd = "wrap" THEN outFile ELSE outputFile, ok) IN
       /\ bundle' = IF r.err = Nil THEN r.bundle ELSE bundle
       /\ steps' = Append(steps, [step |-> "compress", ok |-> r.err = Nil])
       /\ Finish(r.err, "compress", "return")
  /\ UNCHANGED <<lock, engineVars, callVars, sigVars>>
  /\ UNCHANGED <<cmd, inputPath, outputFile, chartPath, chart, declared, lockFile, outFile>>

\* dt wrap CHART_PATH|OCI_URI and dt pull CHART_PATH on a chart whose images
\* directory starts empty, for the given inputs and declared images; g is
\* "none" when RunE begins and "waiting" once it has its context
InitRunE(paths, images, parents, g) ==
  /\ lock = <<>>
  /\ opts = CommandOptions
  /\ cfg = Nil
  /\ cache = [f \in CacheFiles |-> Absent]
  /\ cache0 = cache
  /\ fetches = {}
  /\ registry = {}
  /\ ctxDone = FALSE
  /\ op = "none"
  /\ pc = "init"
  /\ u = 1
  /\ try = 0
  /\ err = Nil
  /\ calls = 0
  /\ warns = 0
  /\ status = <<>>
  /\ attempted = {}
  /\ progress = [total |-> 0, count |-> 0]
  /\ result = Nil
  /\ cancelSeen = "none"
  /\ round = 1
  /\ snapshot = [op |-> "none"]
  /\ cmd \in {"wrap", "pull"}
  /\ wpc = IF cmd = "wrap" THEN "resolve" ELSE "load"
  /\ inputPath \in IF cmd = "wrap" THEN paths
                   ELSE {i \in paths : ~i.oci /\ i.tar = "no"}
  /\ outputFile \in OutputFiles
  /\ chartPath = IF cmd = "wrap" THEN Nil ELSE [kind |-> "path", path |-> inputPath.path]
  /\ chart = Nil
  /\ declared \in images
  /\ lockFile \in {NoFile, File(declared, "found"), File(Stale(declared), "found")}
  /\ outFile = Nil
  /\ bundle = Nil
  /\ steps = <<>>
  /\ wresult = Nil
  /\ parent \in parents
  /\ signalled = FALSE
  /\ registered = (g # "none")
  /\ gpc = g

\* the commands once RunE has its context: from the call of wrapChart, and
\* of LoadChart in dt pull
InitCommands(paths, images) == InitRunE(paths, images, {"background"}, "waiting")

NextWrap ==
  \/ WrapResolve
  \/ LoadChart
  \/ WrapLockStep
  \/ PullChartImages
  \/ PullImagesStart
  \/ PullSelect
  \/ PullCallback
  \/ PullChartImagesReturn
  \/ Compress
  \/ Cancel

InitWrap == InitCommands(UsualInputs, Locks)

SpecWrap == InitWrap /\ [][NextWrap]_vars

\* dt wrap on every kind of input, for a chart that declares at most one image
InitResolve ==
  /\ InitCommands(InputPaths, {l \in Locks : Len(l) <= 1})
  /\ cmd = "wrap"

SpecResolve == InitResolve /\ [][NextWrap]_vars

\* ------------------------------------------------------ contextWithSigterm
\* the other variables of a command
commandVars == <<cmd, wpc, inputPath, outputFile, chartPath, chart, declared, lockFile,
                 outFile, bundle, steps, wresult>>

\* every variable of a chartutils call but the context's state
callState == <<lock, opts, cfg, cache, cache0, fetches, registry, op, pc, u, try, err,
               calls, warns, status, attempted, progress, result, cancelSeen>>

AfterDone_Blocked(done) == "waiting"

\* <-ctx.Done() in the goroutine: it goes on, to the deferred stop, once the
\* context is done
AfterDone(done) == IF done THEN "stopping" ELSE "waiting"

\* ctx, cancel := contextWithSigterm(parent): signal.NotifyContext redirects
\* os.Interrupt and SIGTERM and derives a context from the parent, done at
\* once when the parent is; then the goroutine is started
ContextWithSigterm ==
  /\ gpc = "none"
  /\ registered' = TRUE
  /\ ctxDone' = (parent = "done")
  /\ gpc' = "waiting"
  /\ UNCHANGED <<parent, signalled>>
  /\ UNCHANGED <<callState, callVars, commandVars>>

\* an interrupt or SIGTERM arrives while the signals are redirected
Signal ==
  /\ registered
  /\ ~signalled
  /\ signalled' = TRUE
  /\ UNCHANGED <<parent, registered, gpc, ctxDone>>
  /\ UNCHANGED <<callState, callVars, commandVars>>

\* the goroutine of signal.NotifyContext: case <-c.ch: c.cancel()
NotifyCancel ==
  /\ gpc # "none"
  /\ signalled
  /\ ~ctxDone
  /\ ctxDone' = TRUE
  /\ UNCHANGED sigVars
  /\ UNCHANGED <<callState, callVars, commandVars>>

\* the parent context is cancelled: its children are done with it
ParentCancel ==
  /\ parent = "live"
  /\ parent' = "done"
  /\ ctxDone' = IF gpc # "none" THEN TRUE ELSE ctxDone
  /\ UNCHANGED <<signalled, registered, gpc>>
  /\ UNCHANGED <<callState, callVars, commandVars>>

\* defer cancel() of RunE: the returned stop cancels the context and
\* restores the signals
DeferredCancel ==
  /\ gpc # "none"
  /\ wpc = "done"
  /\ registered \/ ~ctxDone
  /\ ctxDone' = TRUE
  /\ registered' = FALSE
  /\ UNCHANGED <<parent, signalled, gpc>>
  /\ UNCHANGED <<callState, callVars, commandVars>>

\* the goroutine of contextWithSigterm receives from ctx.Done()
GoroutineReceive ==
  /\ gpc = "waiting"
  /\ AfterDone(ctxDone) # "waiting"
  /\ gpc' = AfterDone(ctxDone)
  /\ UNCHANGED <<parent, signalled, registered, ctxDone>>
  /\ UNCHANGED <<callState, callVars, commandVars>>

\* its deferred stop(), and its end
GoroutineStop ==
  /\ gpc = "stopping"
  /\ registered' = FALSE
  /\ ctxDone' = TRUE
  /\ gpc' = "exited"
  /\ UNCHANGED <<parent, signalled>>
  /\ UNCHANGED <<callState, callVars, commandVars>>

\* the commands from the start of RunE, on a chart directory that declares at
\* most one image, with a parent context that can be cancelled or not
InitSigterm ==
  InitRunE({i \in InputPaths : ~i.oci /\ i.tar = "no"}, {l \in Locks : Len(l) <= 1},
           {"background", "live"}, "none")

NextSigterm ==
  \/ ContextWithSigterm
  \/ Signal
  \/ NotifyCancel
  \/ ParentCancel
  \/ DeferredCancel
  \/ GoroutineReceive
  \/ GoroutineStop
  \/ WrapResolve
  \/ LoadChart
  \/ WrapLockStep
  \/ PullChartImages
  \/ PullImagesStart
  \/ PullSelect
  \/ PullCallback
  \/ PullChartImagesReturn
  \/ Compress

\* the Go scheduler runs a goroutine that can take a step
SpecSigterm ==
  /\ InitSigterm
  /\ [][NextSigterm]_vars
  /\ WF_vars(NotifyCancel)
  /\ WF_vars(GoroutineReceive)
  /\ WF_vars(GoroutineStop)

\* ================================================================ properties
\* WithMaxRetries value of the option list, or the default when it has none
ConfiguredRetries ==
  IF HasOption(opts, "WithMaxRetries")
  THEN (CHOOSE o \in {opts[k] : k \in DOMAIN opts} : o.opt = "WithMaxRetries").val
  ELSE DefaultMaxRetries

Started == pc # "init" /\ status # <<>>

\* the unit that ended the call when it did not end in success
EndedAtUnit ==
  /\ pc \in {"done", "panic"}
  /\ Started
  /\ u \in DOMAIN status
  /\ status[u] \in {"InFlight", "Failed"}

\* the unit whose callback returned nil in the last step
JustSucceeded ==
  /\ Started
  /\ \/ pc = "select" /\ u > 1
     \/ pc = "done" /\ result.kind = "ok" /\ Units # <<>>

Completed == {v \in DOMAIN status : status[v] = "Succeeded"}

DigestEntries ==
  {p \in (1..Len(lock)) \X (1..MaxDigests) : p[2] <= Len(lock[p[1]].digests)}

\* C1: without cancellation, a unit that fails k times and then succeeds has
\* reported exactly k retry events, and a unit is given up only after
\* MaxRetries+1 failed transfers in a row, with a transfer-failure error and
\* with no later unit attempted.
C1_RetryBound ==
  /\ (JustSucceeded /\ ~CtxErr) => (warns = calls - 1 /\ calls - 1 <= cfg.MaxRetries)
  /\ (EndedAtUnit /\ ~CtxErr) =>
       /\ calls = cfg.MaxRetries + 1
       /\ result.kind = "failed"
       /\ \A v \in DOMAIN status : v > u => (status[v] = "Pending" /\ v \notin attempted)

\* the retry bound of every call that is given a logger
RetryBoundWithLog == (pc # "init" /\ cfg.Log # "nil") => C1_RetryBound

\* C2 (as claimed): the transfer operation is attempted at most N times per
\* unit, N the configured MaxRetries, 3 without WithMaxRetries.
C2_AtMostNAttempts == calls <= ConfiguredRetries

\* C2 (amended): the transfer operation is attempted at most N+1 times per
\* unit: one first attempt and at most N retries, N = 3 without WithMaxRetries.
C2_AtMostNPlusOneAttempts == calls <= ConfiguredRetries + 1

C2_Witness ==
  /\ ~HasOption(opts, "WithMaxRetries")
  /\ calls = DefaultMaxRetries + 1
  /\ pc = "done"
  /\ result.kind = "failed"

\* C3: once the context is cancelled no unit that is still pending is started
\* or fetched; a transfer-failure error names an image one of whose units was
\* attempted, and the unit at which the call returns the cancellation error
\* was never attempted.
C3_CancelStopsPending ==
  /\ [][CtxErr => \A v \in DOMAIN status :
                    status[v] = "Pending" => (status'[v] = "Pending" /\ v \notin attempted')]_vars
  /\ [](result.kind = "failed" =>
          \E v \in attempted : UnitImage(v).name = result.name)
  /\ [](result.kind = "cancelled" =>
          (ctxDone /\ status[u] = "Pending" /\ u \notin attempted))

C3_Witness ==
  /\ op = "pull"
  /\ result.kind = "cancelled"
  /\ u > 1
  /\ u < Len(Units)

\* C4: a retry considered with the context cancelled makes no transfer call,
\* and the call then ends with the error of the last transfer call made.
C4_NoRetryAfterCancel ==
  /\ [][(pc = "attempt" /\ try > 0 /\ CtxErr) =>
          (calls' = calls /\ warns' = warns /\ cache' = cache /\ registry' = registry)]_vars
  /\ []((pc = "done" /\ cancelSeen = "retry") =>
          (result.kind = "failed" /\ result.cause # Nil /\ result.cause.attempt = calls))

C4_Witness ==
  /\ pc = "done"
  /\ cancelSeen = "retry"
  /\ calls = 1
  /\ cfg.MaxRetries = DefaultMaxRetries

\* C5 (as claimed): a call that stopped because it saw the cancellation,
\* before a unit or between retries, returns the cancellation error.
C5_CancellationCause ==
  (pc = "done" /\ cancelSeen # "none") => result = [kind |-> "cancelled"]

\* C5 (amended): a call that saw the cancellation before starting a unit
\* returns the cancellation error; one that saw it between retries of a unit
\* returns the transfer-failure error wrapping the unit's last transfer error.
C5_CancellationCauseBySite ==
  pc = "done" =>
    /\ cancelSeen = "select" => result = [kind |-> "cancelled"]
    /\ cancelSeen = "retry" =>
         (result.kind = "failed" /\ result.cause # Nil /\ result.name = UnitImage(u).name)
    /\ cancelSeen = "none" => result.kind # "cancelled"

C5_Witness ==
  /\ pc = "done"
  /\ cancelSeen = "select"
  /\ op = "push"
  /\ u > 1

\* C6: a pull returns success only with every Digest Entry fetched and saved;
\* a failed unit makes the call return an error and no unit after it is
\* attempted.
C6_NoSilentSkip ==
  op = "pull" =>
    /\ result.kind = "ok" =>
         /\ Cardinality(Completed) = Cardinality(DigestEntries)
         /\ \A v \in DOMAIN status :
              /\ status[v] = "Succeeded"
              /\ v \in attempted
              /\ Loadable(cache[getImageTarFile(UnitImage(v).digests[Units[v].dg])])
    /\ \A v \in DOMAIN status :
         status[v] = "Failed" =>
           /\ pc = "done"
           /\ result.kind = "failed"
           /\ \A w \in DOMAIN status : w > v => (status[w] = "Pending" /\ w \notin attempted)

C6_Witness ==
  /\ op = "pull"
  /\ result.kind = "failed"
  /\ ~ctxDone
  /\ u = 1
  /\ Len(Units) > 2
  /\ calls = cfg.MaxRetries + 1

\* C7: units run one at a time in lock order: a unit leaves Pending only when
\* every earlier unit has succeeded, at most one unit is in flight, and the
\* loop order follows the images of the lock and the digests of each image.
C7_Sequential ==
  Started =>
    /\ \A v \in DOMAIN status :
         (status[v] # "Pending" \/ v \in attempted) =>
           \A w \in DOMAIN status : w < v => status[w] = "Succeeded"
    /\ Cardinality({v \in DOMAIN status : status[v] = "InFlight"}) <= 1
    /\ \A v, w \in DOMAIN Units :
         v < w => \/ Units[v].img < Units[w].img
                  \/ Units[v].img = Units[w].img /\ Units[v].dg < Units[w].dg

C7_Witness ==
  /\ Started
  /\ Len(Units) > 2
  /\ status[1] = "Succeeded"
  /\ status[2] = "InFlight"
  /\ try > 0

\* C8: the total is set before the first unit and never changes; it is the
\* number of Digest Entries for a pull and the number of images for a push;
\* a successful call has advanced the counter exactly that many times.
C8_ProgressTotal ==
  /\ [][pc # "init" => progress'.total = progress.total]_vars
  /\ [](Started =>
          /\ op = "pull" => progress.total = Cardinality(DigestEntries)
          /\ op = "push" => progress.total = Len(lock))
  /\ []((Started /\ result.kind = "ok") => progress.count = progress.total)

C8_Witness ==
  /\ op = "pull"
  /\ result.kind = "ok"
  /\ progress.count = 3
  /\ Len(lock) = 2
  /\ warns > 0

\* C9 (as claimed): the progress count is the number of units that have
\* finished successfully.
C9_CompletedCount == Started => progress.count = Cardinality(Completed)

\* C10: the progress count never decreases and never exceeds the total.
C10_ProgressMonotoneBounded ==
  /\ [][progress'.count >= progress.count]_vars
  /\ [](progress.count <= progress.total)

C10_Witness ==
  /\ op = "push"
  /\ pc = "done"
  /\ result.kind = "failed"
  /\ ctxDone
  /\ progress.count = progress.total
  /\ progress.total > 1
  /\ \E i \in DOMAIN lock : lock[i].digests = <<>>

LockDigests == {lock[p[1]].digests[p[2]] : p \in DigestEntries}

PresentFiles == {f \in CacheFiles : cache[f] # Absent}

EmptyDir == [f \in CacheFiles |-> Absent]

\* C11: every reference a pull asks the registry for is image@digest of a
\* Digest Entry of that image in the lock, its archive is <encoded digest>.tar
\* of the same digest, and only the files of fetched references are written.
C11_FetchesFromLock ==
  op = "pull" =>
    /\ \A f \in fetches :
         \E p \in DigestEntries :
           /\ f.ref.image = lock[p[1]].image
           /\ f.ref.digest = lock[p[1]].digests[p[2]]
           /\ f.file = <<lock[p[1]].digests[p[2]].hex, ".tar">>
    /\ \A file \in CacheFiles :
         cache[file] # cache0[file] =>
           \E f \in fetches :
             /\ f.file = file
             /\ Loadable(cache[file]) =>
                  \E g \in fetches : g.file = file /\ cache[file] = Archive(g.ref.image, g.ref.digest)

C11_Witness ==
  /\ op = "pull"
  /\ result.kind = "ok"
  /\ Cardinality(fetches) = 3
  /\ Cardinality(LockDigests) = 2
  /\ cache0 = EmptyDir

\* C12 (as claimed): a successful pull into an empty directory leaves as many
\* archive files as the lock has Digest Entries.
C12_OneFilePerEntry ==
  (op = "pull" /\ result.kind = "ok" /\ cache0 = EmptyDir) =>
    Cardinality(PresentFiles) = Cardinality(DigestEntries)

\* C12 (amended): a successful pull into an empty directory leaves exactly one
\* loadable archive file per distinct digest of the lock: as many files as
\* Digest Entries when no digest is listed under two images.
C12_OneFilePerDigest ==
  (op = "pull" /\ result.kind = "ok" /\ cache0 = EmptyDir) =>
    /\ PresentFiles = {getImageTarFile(d) : d \in LockDigests}
    /\ \A f \in PresentFiles : Loadable(cache[f])
    /\ Cardinality(PresentFiles) = Cardinality(LockDigests)
    /\ Cardinality(LockDigests) = Cardinality(DigestEntries) =>
         Cardinality(PresentFiles) = Cardinality(DigestEntries)

C12_Witness ==
  /\ op = "pull"
  /\ result.kind = "ok"
  /\ cache0 = EmptyDir
  /\ Len(lock) = 1
  /\ Len(lock[1].digests) = 2
  /\ Cardinality(PresentFiles) = 2

\* the archive of some Digest Entry of unit v's image cannot be loaded
ArchiveMissing(v) ==
  \E j \in DOMAIN UnitImage(v).digests :
    ~Loadable(cache[getImageTarFile(UnitImage(v).digests[j])])

Published(v) == {r \in registry : r.image = UnitImage(v).image}

\* every manifest list in the registry has one entry per Digest Entry of its
\* image, and an image that failed or has an unloadable archive has none
NoDegradedIndex ==
  op = "push" =>
    /\ \A r \in registry :
         \E i \in DOMAIN lock :
           /\ r.image = lock[i].image
           /\ Len(r.manifests) = Len(lock[i].digests)
           /\ r.manifests = lock[i].digests
    /\ \A v \in DOMAIN status :
         (ArchiveMissing(v) \/ status[v] = "Failed") =>
           /\ Published(v) = {}
           /\ status[v] # "Succeeded"
           /\ \A w \in DOMAIN status : w > v => (status[w] = "Pending" /\ w \notin attempted)

\* C13: a push publishes no degraded manifest list; when an archive of an
\* image is missing or unreadable no list is written for it, the call
\* returns an error and no later image is pushed.
C13_NoDegradedPush ==
  /\ NoDegradedIndex
  /\ op = "push" =>
       \A v \in DOMAIN status :
         (v \in attempted /\ ArchiveMissing(v) /\ pc \in {"done", "panic"}) =>
           result.kind = "failed"

\* the same of every push that is given a logger
NoDegradedPushWithLog == (pc # "init" /\ cfg.Log # "nil") => C13_NoDegradedPush

\* C14: a second pull of the same lock into the directory a first successful
\* pull left fails only when a transfer fails, never because of the files the
\* first pull left; when it succeeds, every file and its contents are as the
\* first pull left them.
C14_PullTwiceSameCache ==
  /\ (round = 2 /\ op = "pull" /\ pc = "done" /\ snapshot.kind = "ok"
        /\ cancelSeen = "none" /\ result.kind \notin {"ok", "mkdir"}) =>
       (result.kind = "failed" /\ result.cause.kind \in {"get", "save"})
  /\ (round = 2 /\ op = "pull" /\ result.kind = "ok"
        /\ snapshot.op = "pull" /\ snapshot.kind = "ok") =>
       /\ cache = snapshot.cache
       /\ {f \in CacheFiles : cache[f] # Absent} = {f \in CacheFiles : snapshot.cache[f] # Absent}

C14_Witness ==
  /\ round = 2
  /\ op = "pull"
  /\ result.kind = "ok"
  /\ snapshot.op = "pull"
  /\ snapshot.kind = "ok"
  /\ Len(lock) = 2
  /\ \E d \in DigestIds : lock[1].digests = <<d>> /\ lock[2].digests = <<d>>
  /\ \A f \in CacheFiles : cache[f].state = "ok" => cache[f].tag = lock[2].image

\* C15: every pull starts at the first unit with all units pending, and every
\* unit it finishes was fetched from the registry in this call, whatever the
\* directory held from an earlier successful, failed or cancelled call.
C15_NoResume ==
  /\ [][(pc = "init" /\ pc' = "select") =>
          (u' = 1 /\ attempted' = {} /\ \A v \in DOMAIN status' : status'[v] = "Pending")]_vars
  /\ [](op = "pull" =>
          \A v \in DOMAIN status :
            status[v] \in {"Succeeded", "Failed"} =>
              /\ \A w \in DOMAIN status : w < v => status[w] = "Succeeded"
              /\ \E f \in fetches :
                   /\ f.unit = v
                   /\ f.ref = [image |-> UnitImage(v).image,
                               digest |-> UnitImage(v).digests[Units[v].dg]])

C15_Witness ==
  /\ round = 2
  /\ op = "pull"
  /\ result.kind = "ok"
  /\ snapshot.kind \in {"failed", "cancelled"}
  /\ \A d \in LockDigests : Loadable(cache0[getImageTarFile(d)])
  /\ Cardinality(fetches) = 3

\* C16: no step of PullImages or PushImages changes the lock: the image list
\* and every image's name, image reference and Digest Entries stay as loaded,
\* through success, failure and cancellation.
C16_LockReadOnly ==
  [][/\ lock' = lock
     /\ Len(lock') = Len(lock)
     /\ \A i \in DOMAIN lock :
          /\ lock'[i].name = lock[i].name
          /\ lock'[i].image = lock[i].image
          /\ lock'[i].digests = lock[i].digests]_vars

C16_Witness ==
  /\ op = "push"
  /\ pc = "done"
  /\ result.kind = "failed"
  /\ Len(lock) = 2
  /\ status[1] = "Succeeded"
  /\ Len(lock[1].digests) = 2
  /\ \E w \in registry : w.image = lock[1].image /\ Len(w.manifests) = 2

\* the units of the call that fit what the returned error says: the image
\* name of the wrapper and, when the cause names an archive file, its digest
ErrorUnits ==
  {v \in DOMAIN status :
     /\ UnitImage(v).name = result.name
     /\ "file" \in DOMAIN result.cause =>
          IF op = "pull"
          THEN getImageTarFile(UnitImage(v).digests[Units[v].dg]) = result.cause.file
          ELSE \E j \in 1..Len(UnitImage(v).digests) :
                 getImageTarFile(UnitImage(v).digests[j]) = result.cause.file}

\* C18: the error returned for a unit that exhausted its retries carries the
\* underlying cause and says which unit failed: its image name and digest fit
\* the failed unit and no other unit of the call.
C18_ErrorIdentifiesUnit ==
  (pc = "done" /\ result.kind = "failed") =>
    /\ result.cause # Nil
    /\ result.name = UnitImage(u).name
    /\ ErrorUnits = {u}

\* what the code gives: the image name and the cause, which fit every digest
\* of the image when the cause names no archive file
C18_ErrorNamesImage ==
  (pc = "done" /\ result.kind = "failed") =>
    /\ result.cause # Nil
    /\ result.name = UnitImage(u).name
    /\ status[u] = "Failed"
    /\ u \in ErrorUnits
    /\ \A v \in ErrorUnits : UnitImage(v).name = UnitImage(u).name

LockSteps == {"verify", "generate"}

\* the place of a step in wrapChart: lock step, pull, compress
StepOrder(x) == IF x \in LockSteps THEN 1 ELSE IF x = "pull" THEN 2 ELSE 3

\* C17: wrapChart runs the lock step, then the pull, then the compression,
\* each at most once; the pull starts only after a successful lock step, the
\* archive is written only after a successful pull, and a failed step is the
\* last step: the command returns an error.
C17_WrapStepOrder ==
  cmd = "wrap" =>
    /\ \A i \in DOMAIN steps : StepOrder(steps[i].step) = i
    /\ \A i \in DOMAIN steps : i < Len(steps) => steps[i].ok
    /\ (steps # <<>> /\ ~steps[Len(steps)].ok) =>
         (wpc = "done" /\ wresult.kind = "error" /\ wresult.step = steps[Len(steps)].step)
    /\ (wpc = "pulling" \/ op = "pull" \/ fetches # {}) =>
         (Len(steps) >= 1 /\ steps[1].step \in LockSteps /\ steps[1].ok)
    /\ (bundle # Nil \/ wpc = "compress") =>
         (Len(steps) >= 2 /\ steps[2].step = "pull" /\ steps[2].ok /\ result.kind = "ok")
    /\ wresult.kind = "ok" =>
         (Len(steps) = 3 /\ steps[3].ok /\ bundle # Nil)

C17_Witness ==
  /\ cmd = "wrap"
  /\ wpc = "done"
  /\ wresult.kind = "ok"
  /\ steps[1].step = "generate"
  /\ Len(lock) = 2
  /\ Cardinality(fetches) = 3
  /\ bundle # Nil

\* C19: every archive written by dt wrap or dt pull --output-file has the
\* prefix <chart name>-<chart version> of the loaded chart, whatever output
\* file and input path the caller gave.
C19_BundlePrefix ==
  bundle # Nil =>
    /\ cmd \in {"wrap", "pull"}
    /\ bundle.prefix = chart.name \o <<"-">> \o chart.version
    /\ \E c \in Charts : bundle.prefix = c.name \o <<"-">> \o c.version
    /\ bundle.file = IF cmd = "wrap" THEN outFile ELSE outputFile

C19_Witness ==
  /\ cmd = "pull"
  /\ wpc = "done"
  /\ outputFile # NoOutput
  /\ bundle # Nil
  /\ bundle.file = outputFile
  /\ chart.name = <<"m", "-", "x">>

\* C20: wrapChart runs one lock step: it verifies a lock file that exists
\* and leaves it as it is, it generates the lock only when there is no lock
\* file, and a failed verification ends the command before any pull.
C20_VerifyOrGenerate ==
  /\ [](cmd = "wrap" =>
          /\ Cardinality({i \in DOMAIN steps : steps[i].step \in LockSteps}) <= 1
          /\ (wpc \in {"pull", "pulling", "compress"} \/ wresult.kind = "ok") =>
               Cardinality({i \in DOMAIN steps : steps[i].step \in LockSteps}) = 1
          /\ (steps # <<>> /\ steps[1].step = "verify") =>
               (FileExists(lockFile) /\ lockFile.origin = "found")
          /\ (steps # <<>> /\ steps[1] = [step |-> "verify", ok |-> FALSE]) =>
               (wpc = "done" /\ wresult.kind = "error" /\ op = "none" /\ bundle = Nil))
  /\ [][/\ lockFile' # lockFile =>
             /\ ~FileExists(lockFile)
             /\ lockFile' = File(declared, "generated")
             /\ steps' = Append(steps, [step |-> "generate", ok |-> TRUE])
        /\ (Len(steps') > Len(steps) /\ steps'[Len(steps')].step = "verify") =>
             (FileExists(lockFile) /\ lockFile' = lockFile)
        /\ (Len(steps') > Len(steps) /\ steps'[Len(steps')].step = "generate") =>
             ~FileExists(lockFile)]_vars

C20_Witness ==
  /\ cmd = "wrap"
  /\ wpc = "done"
  /\ wresult.kind = "ok"
  /\ steps[1] = [step |-> "verify", ok |-> TRUE]
  /\ lockFile = File(declared, "found")
  /\ declared # <<>>

\* wrapChart returned the error of resolveInputChartPath, of the given kind
ResolveFailed(kind) ==
  /\ wpc = "done"
  /\ wresult.kind = "error"
  /\ wresult.step = "resolve"
  /\ wresult.cause.kind = kind
  /\ chartPath = Nil

\* resolveInputChartPath returned the given path and no error
ResolvedTo(p) ==
  /\ chartPath = [kind |-> "path", path |-> p]
  /\ ~(wresult.kind = "error" /\ wresult.step = "resolve")

\* C21: an input that starts with oci:// is fetched, whatever its content
\* looks like; any other input whose content is a tar archive is unpacked;
\* any other input, one whose content cannot be read included, comes back
\* unchanged and without an error.
C21_ResolvePriority ==
  (cmd = "wrap" /\ wpc # "resolve") =>
    /\ inputPath.oci =>
         (ResolvedTo(<<"tmp", "fetched">>) \/ ResolveFailed("download"))
    /\ (~inputPath.oci /\ inputPath.tar = "yes") =>
         (ResolvedTo(<<"tmp", "untarred">>) \/ ResolveFailed("uncompress"))
    /\ (~inputPath.oci /\ inputPath.tar # "yes") =>
         ResolvedTo(inputPath.path)

\* C21 as the code has it: the same priority, once the temporary work
\* directory was obtained; without it every input ends in that error.
C21_ResolvePriorityAfterTmpDir ==
  (cmd = "wrap" /\ wpc # "resolve") =>
    \/ ResolveFailed("tmpdir")
    \/ /\ inputPath.oci =>
            (ResolvedTo(<<"tmp", "fetched">>) \/ ResolveFailed("download"))
       /\ (~inputPath.oci /\ inputPath.tar = "yes") =>
            (ResolvedTo(<<"tmp", "untarred">>) \/ ResolveFailed("uncompress"))
       /\ (~inputPath.oci /\ inputPath.tar # "yes") =>
            ResolvedTo(inputPath.path)

C21_Witness ==
  /\ cmd = "wrap"
  /\ inputPath.oci
  /\ inputPath.tar = "yes"
  /\ chartPath = [kind |-> "path", path |-> <<"tmp", "fetched">>]
  /\ wpc = "done"
  /\ wresult.kind = "ok"

\* the value of the last option of the given kind, or the default without one
LastOption(kind, default) ==
  LET at == {k \in DOMAIN opts : opts[k].opt = kind} IN
  IF at = {} THEN default
  ELSE opts[CHOOSE k \in at : \A j \in at : j <= k].val

\* C22: the configuration of a call has, in each field, the value of the last
\* option given for that field, and the default when no option was given for
\* it: the default annotations key, the background context, the silent
\* progress bar, 3 retries.
C22_OptionsInOrder ==
  pc # "init" =>
    /\ cfg.AnnotationsKey = LastOption("WithAnnotationsKey", "images")
    /\ cfg.Context = LastOption("WithContext", "background")
    /\ cfg.ProgressBar = LastOption("WithProgressBar", "silent")
    /\ cfg.MaxRetries = LastOption("WithMaxRetries", 3)
    /\ cfg.Log = LastOption("WithLog", "nil")

C22_Witness ==
  /\ pc # "init"
  /\ Len(opts) = 2
  /\ opts[1].opt = "WithMaxRetries"
  /\ opts[2].opt = "WithMaxRetries"
  /\ opts[1].val # opts[2].val
  /\ cfg.MaxRetries = opts[2].val
  /\ cfg.Context = "background"
  /\ cfg.ProgressBar = "silent"
  /\ cfg.AnnotationsKey = "images"

\* C23: whenever the callback is on its retry path with the context not
\* cancelled, the logger it calls Debugf on is set, and no call ends in a panic.
C23_RetryLoggerSet ==
  /\ (pc = "attempt" /\ try > 0 /\ ~CtxErr) => cfg.Log # "nil"
  /\ pc # "panic"
  /\ result.kind # "panic"

\* the archive file of a pull unit
UnitFile(v) == getImageTarFile(UnitImage(v).digests[Units[v].dg])

\* PullImages returned an error for a failed or cancelled unit
PullStopped ==
  /\ op = "pull"
  /\ pc = "done"
  /\ result.kind \in {"failed", "cancelled"}

\* after a stopped pull, the archive of every unit that succeeded is in the
\* images directory, and the files of the units that were never attempted are
\* as the call found them, save those a unit that was attempted shares
ArchivesKept ==
  PullStopped =>
    /\ \A v \in DOMAIN status :
         status[v] = "Succeeded" =>
           /\ Loadable(cache[UnitFile(v)])
           /\ cache[UnitFile(v)].digest = UnitImage(v).digests[Units[v].dg]
    /\ \A w \in DOMAIN status :
         (w \notin attempted /\ \A v \in attempted : UnitFile(v) # UnitFile(w)) =>
           cache[UnitFile(w)] = cache0[UnitFile(w)]

\* C24: a pull that fails or is cancelled at a unit leaves the archive of
\* every unit that succeeded before it in the images directory, and writes no
\* archive for a unit after it.
C24_NoRollback == ArchivesKept

\* no digest is listed by two images of the lock
DigestsNotShared ==
  \A i, j \in DOMAIN lock :
    i # j => \A a \in DOMAIN lock[i].digests, b \in DOMAIN lock[j].digests :
               lock[i].digests[a] # lock[j].digests[b]

\* what the code gives: nothing is rolled back when no two images list the
\* same digest
NoRollbackUnlessShared == DigestsNotShared => ArchivesKept

\* C25: the goroutine of contextWithSigterm ends only after the context is
\* done, and once the context is done, by a signal, by the parent or by the
\* caller's cancel, the goroutine calls stop, which restores the signals, and
\* ends; a signal makes the context done, and that context is the one
\* PullImages reads.
C25_GoroutineStops ==
  /\ [](gpc \in {"stopping", "exited"} => ctxDone)
  /\ [](gpc = "exited" => ~registered)
  /\ [](ctxDone ~> (gpc = "exited" /\ ~registered))
  /\ [](signalled ~> ctxDone)
  /\ []((op = "pull" /\ pc # "init") => (cfg.Context = "ctx" /\ (ctxDone => CtxErr)))

C25_Witness ==
  /\ signalled
  /\ parent = "background"
  /\ wpc = "done"
  /\ op = "pull"
  /\ result.kind = "cancelled"
  /\ wresult.kind = "error"
  /\ gpc = "exited"
  /\ ~registered

====
